---- MODULE Spec2Model ----
(***************************************************************************)
(* State-machine model of calibrate.py: main().                            *)
(*                                                                         *)
(* main() samples frames from a glob of images or from a video, offers the *)
(* sampled frames to the chessboard detector, accumulates one              *)
(* (object points, image points) pair per frame the detector accepts, and  *)
(* finally hands the accumulated lists to cv2.calibrateCamera.             *)
(*                                                                         *)
(* Modelling conventions                                                   *)
(*  - A frame of the source is a record [shape, board]: `shape` is         *)
(*    img.shape[:2] = (h, w) and `board` is the value `found` that         *)
(*    cv2.findChessboardCorners returns on it.  Frames are addressed by    *)
(*    their 0-based index, as the program's `frame` counter does.          *)
(*  - Every file of a glob is taken to be a decodable image and            *)
(*    framestep >= 1 (frame % 0 raises before any frame is processed).     *)
(*  - max_frames is <<>> for None and <<n>> for the integer n.             *)
(*  - One action is one whole iteration of the `while True` loop, or one   *)
(*    of the straight-line blocks after it.                                *)
(***************************************************************************)
EXTENDS Integers, Sequences, FiniteSets, TLC

\* ---- bounds of the model ------------------------------------------------
MaxLen == 3
NumShapes == 2
MaxStep == 3
MaxLimit == 3

\* ---- program constants --------------------------------------------------
PatternCols == 7
PatternRows == 4
DebugNameWidth == 4

VARIABLES source, framestep, max_frames, debug_dir, corners_f,
          obj_points, img_points, h, w, frame, used_frames, pc,
          detect_calls, decoded, debug_files, corners_file,
          solver_calls, output

config == <<source, framestep, max_frames, debug_dir, corners_f>>
vars == <<source, framestep, max_frames, debug_dir, corners_f,
          obj_points, img_points, h, w, frame, used_frames, pc,
          detect_calls, decoded, debug_files, corners_file,
          solver_calls, output>>

\* ---- inputs ---------------------------------------------------------------
Shapes == {<<240 * k, 320 * k>> : k \in 1..NumShapes}

Frames == [shape : Shapes, board : BOOLEAN]

FrameSeqs == UNION {[1..n -> Frames] : n \in 0..MaxLen}

\* A glob is any list of images; the frames of one video share one shape.
Sources ==
    {[kind |-> "glob", frames |-> fs] : fs \in FrameSeqs}
    \cup
    {[kind |-> "video", frames |-> fs] :
        fs \in {gs \in FrameSeqs :
                  \A i, j \in 1..Len(gs) : gs[i].shape = gs[j].shape}}

MaxFramesValues == {<<>>} \cup {<<n>> : n \in 0..MaxLimit}

\* ---- pure helpers -----------------------------------------------------------
\* pattern_points: row k is (k mod cols, k div cols, 0).
pattern_points ==
    [k \in 1..(PatternCols * PatternRows) |->
        <<(k - 1) % PatternCols, (k - 1) \div PatternCols, 0>>]

\* The refined corners the detector returns for frame f.
Corners(f) == [frame |-> f]

RECURSIVE Digits(_)
Digits(n) == IF n < 10 THEN <<n>> ELSE Append(Digits(n \div 10), n % 10)

RECURSIVE ZeroPad(_, _)
ZeroPad(ds, width) == IF Len(ds) >= width THEN ds ELSE ZeroPad(<<0>> \o ds, width)

\* '%04d' % frame, as the sequence of its decimal digits.
DebugName(f) == ZeroPad(Digits(f), DebugNameWidth)

\* ---- decisions of the loop body ------------------------------------------------
\* The loop breaks on frame f: f == len(source), or read() returned no frame.
Exhausted(f) == f = Len(source.frames)

\* Faulty variants (the stride applied to globs too; the stride off by one).
Skipped_NoKind(f) == f % framestep # 0
Skipped_OffByOne(f) == source.kind = "video" /\ f % framestep # 1 % framestep
\* The stride `continue`: only on the video branch.
Skipped(f) == source.kind = "video" /\ f % framestep # 0

\* Faulty variant: the found flag ignored.
Found_Always(f) == TRUE
\* found, as returned by cv2.findChessboardCorners on frame f.
Found(f) == source.frames[f + 1].board

\* Faulty variant: the shape taken only from frames with a chessboard.
ShapeOf_KeepOnMiss(f) ==
    IF source.frames[f + 1].board THEN source.frames[f + 1].shape ELSE <<h, w>>
\* img.shape[:2] of frame f.
ShapeOf(f) == source.frames[f + 1].shape

\* max_frames is not None and n >= max_frames.
LimitReached(n) == max_frames # <<>> /\ n >= max_frames[1]

\* Faulty variant: the append to obj_points forgotten.
ObjAppended_Dropped == obj_points
\* obj_points.append(pattern_points)
ObjAppended == Append(obj_points, pattern_points)

\* img_points.append(corners)
ImgAppended(f) == Append(img_points, Corners(f))

\* The debug image of frame f is written when a debug directory is set.
DebugWritten(f) ==
    IF debug_dir THEN Append(debug_files, DebugName(f)) ELSE debug_files

\* Whether cv2.calibrateCamera raises: it does on an empty list of views; on
\* any other list the library returns a result or raises, and main() puts no
\* condition of its own on the number of views.
SolverOutcomes(views) == IF Len(views) = 0 THEN {TRUE} ELSE BOOLEAN

\* ---- initial state ----------------------------------------------------------------
Init ==
    /\ source \in Sources
    /\ framestep \in 1..MaxStep
    /\ max_frames \in MaxFramesValues
    /\ debug_dir \in BOOLEAN
    /\ corners_f \in BOOLEAN
    /\ obj_points = <<>>
    /\ img_points = <<>>
    /\ h = 0
    /\ w = 0
    /\ frame = -1
    /\ used_frames = 0
    /\ pc = "sampling"
    /\ detect_calls = <<>>
    /\ decoded = <<>>
    /\ debug_files = <<>>
    /\ corners_file = <<>>
    /\ solver_calls = <<>>
    /\ output = <<>>

\* ---- the sampling loop ----------------------------------------------------------------
\* frame += 1, then break: the glob is at its end or read() returned no frame.
LoopExhausted ==
    /\ pc = "sampling"
    /\ Exhausted(frame + 1)
    /\ frame' = frame + 1
    /\ pc' = "corners"
    /\ UNCHANGED <<config, obj_points, img_points, h, w, used_frames,
                   detect_calls, decoded, debug_files, corners_file,
                   solver_calls, output>>

\* frame += 1, a frame is read from the video, and the stride skips it.
LoopSkip ==
    /\ pc = "sampling"
    /\ ~Exhausted(frame + 1)
    /\ Skipped(frame + 1)
    /\ frame' = frame + 1
    /\ decoded' = Append(decoded, frame + 1)
    /\ UNCHANGED <<config, obj_points, img_points, h, w, used_frames, pc,
                   detect_calls, debug_files, corners_file,
                   solver_calls, output>>

\* frame += 1, the frame is read and offered to the detector, found is false.
LoopReject ==
    /\ pc = "sampling"
    /\ ~Exhausted(frame + 1)
    /\ ~Skipped(frame + 1)
    /\ ~Found(frame + 1)
    /\ frame' = frame + 1
    /\ decoded' = Append(decoded, frame + 1)
    /\ h' = ShapeOf(frame + 1)[1]
    /\ w' = ShapeOf(frame + 1)[2]
    /\ detect_calls' = Append(detect_calls, frame + 1)
    /\ debug_files' = DebugWritten(frame + 1)
    /\ UNCHANGED <<config, obj_points, img_points, used_frames, pc,
                   corners_file, solver_calls, output>>

\* frame += 1, the frame is read and offered to the detector, found is true:
\* the view is appended, and the loop breaks when the limit is reached
\* (before the debug image is written).
LoopAccept ==
    /\ pc = "sampling"
    /\ ~Exhausted(frame + 1)
    /\ ~Skipped(frame + 1)
    /\ Found(frame + 1)
    /\ frame' = frame + 1
    /\ decoded' = Append(decoded, frame + 1)
    /\ h' = ShapeOf(frame + 1)[1]
    /\ w' = ShapeOf(frame + 1)[2]
    /\ detect_calls' = Append(detect_calls, frame + 1)
    /\ used_frames' = used_frames + 1
    /\ img_points' = ImgAppended(frame + 1)
    /\ obj_points' = ObjAppended
    /\ IF LimitReached(used_frames + 1)
         THEN /\ pc' = "corners"
              /\ debug_files' = debug_files
         ELSE /\ pc' = "sampling"
              /\ debug_files' = DebugWritten(frame + 1)
    /\ UNCHANGED <<config, corners_file, solver_calls, output>>

\* ---- after the loop ----------------------------------------------------------------
\* The corners file: img_points, obj_points and (w, h), when corners_f is set.
DumpCorners ==
    /\ pc = "corners"
    /\ corners_file' =
         IF corners_f
           THEN <<[img_points |-> img_points, obj_points |-> obj_points,
                   size |-> <<w, h>>]>>
           ELSE corners_file
    /\ pc' = "solving"
    /\ UNCHANGED <<config, obj_points, img_points, h, w, frame, used_frames,
                   detect_calls, decoded, debug_files, solver_calls, output>>

\* cv2.calibrateCamera(obj_points, img_points, (w, h), None, None), and the
\* yaml output when it returns.
Calibrate ==
    /\ pc = "solving"
    /\ solver_calls' =
         Append(solver_calls,
                [obj_points |-> obj_points, img_points |-> img_points,
                 size |-> <<w, h>>])
    /\ \E raised \in SolverOutcomes(obj_points) :
          IF raised
            THEN /\ pc' = "error"
                 /\ output' = output
            ELSE /\ pc' = "done"
                 /\ output' = <<[views |-> Len(obj_points)]>>
    /\ UNCHANGED <<config, obj_points, img_points, h, w, frame, used_frames,
                   detect_calls, decoded, debug_files, corners_file>>

Next ==
    \/ LoopExhausted
    \/ LoopSkip
    \/ LoopReject
    \/ LoopAccept
    \/ DumpCorners
    \/ Calibrate

Spec == Init /\ [][Next]_vars

\* The program is sequential: a step that can be taken is taken.
FairSpec == Spec /\ WF_vars(Next)

TypeOK ==
    /\ source \in Sources
    /\ framestep \in 1..MaxStep
    /\ max_frames \in MaxFramesValues
    /\ frame \in -1..Len(source.frames)
    /\ used_frames \in 0..Len(source.frames)
    /\ pc \in {"sampling", "corners", "solving", "done", "error"}
    /\ <<h, w>> \in Shapes \cup {<<0, 0>>}

\* ---- vocabulary of the properties ---------------------------------------------
Range(s) == {s[i] : i \in 1..Len(s)}

StrictlyIncreasing(s) == \A i, j \in 1..Len(s) : i < j => s[i] < s[j]

Last(s) == s[Len(s)]

\* The frame was offered and the detector found the pattern on it.
HasBoard(f) == source.frames[f + 1].board

\* (width, height) of frame f.
SizeOf(f) == <<source.frames[f + 1].shape[2], source.frames[f + 1].shape[1]>>

NoLimit == max_frames = <<>>

\* The index of the last frame the loop has dealt with.
Sampled == IF pc = "sampling" THEN frame ELSE Len(source.frames) - 1

Ended == pc \in {"done", "error"}

RECURSIVE DecimalValue(_)
DecimalValue(ds) ==
    IF ds = <<>> THEN 0 ELSE 10 * DecimalValue(SubSeq(ds, 1, Len(ds) - 1)) + Last(ds)

\* ---- C1 ----------------------------------------------------------------------------
\* C1: on a video of L frames read with stride N >= 1 and no max-frames limit,
\* the detector is called on exactly the frames i with 0 <= i < L and
\* i mod N = 0, once each and in increasing order, whatever the detector
\* returns on any frame (while sampling: exactly those up to the current frame).
C1_StrideSampling ==
    (source.kind = "video" /\ NoLimit) =>
        /\ StrictlyIncreasing(detect_calls)
        /\ Range(detect_calls) = {i \in 0..Sampled : i % framestep = 0}

C1_Witness ==
    /\ source.kind = "video" /\ NoLimit
    /\ Len(source.frames) = 3 /\ framestep = 2
    /\ ~HasBoard(0) /\ HasBoard(2)
    /\ pc = "done"
    /\ detect_calls = <<0, 2>>

\* ---- C2 ----------------------------------------------------------------------------
\* C2: an iteration that offers a frame on which detection returns found = false
\* leaves the accepted-view count and both correspondence lists unchanged,
\* does not end the run (sampling goes on from the next frame), and the frame
\* had not been offered to the detector before.
C2_RejectedFrameSkipped ==
    [][(detect_calls' # detect_calls /\ ~HasBoard(Last(detect_calls'))) =>
          /\ Last(detect_calls') \notin Range(detect_calls)
          /\ used_frames' = used_frames
          /\ img_points' = img_points
          /\ obj_points' = obj_points
          /\ pc' = "sampling"
          /\ frame' = Last(detect_calls')
          /\ frame' = frame + 1]_vars

C2_Witness ==
    /\ Len(detect_calls) = 3
    /\ HasBoard(detect_calls[1])
    /\ ~HasBoard(detect_calls[2])
    /\ HasBoard(detect_calls[3])
    /\ used_frames = 2
    /\ pc = "done"

\* ---- C3 ----------------------------------------------------------------------------
\* C3: a run whose sampling ended with 0, 1 or 2 accepted views ends in the
\* solver's error, and no calibration output is written.  (Stated for runs
\* without a limit or with a limit of at least 1: the limit 0 is the case of C5.)
C3_FewViewsFail ==
    (Ended /\ used_frames < 3 /\ max_frames # <<0>>) =>
        (pc = "error" /\ output = <<>>)

\* ---- C4 ----------------------------------------------------------------------------
\* C4: the accepted views all come from frames of one (width, height): a view
\* of another size is never appended to the set the solver is handed.
C4_DimensionGuard ==
    \A j, k \in 1..Len(img_points) :
        SizeOf(img_points[j].frame) = SizeOf(img_points[k].frame)

\* ---- C5 ----------------------------------------------------------------------------
\* C5: when max_frames is set (0 included) the accepted-view count never
\* exceeds it, and once the count has reached it no frame is read from the
\* source or offered to the detector.
C5_MaxFramesBound ==
    [][~NoLimit =>
          /\ used_frames' <= max_frames[1]
          /\ used_frames >= max_frames[1] =>
                (decoded' = decoded /\ detect_calls' = detect_calls)]_vars

\* ---- C6 ----------------------------------------------------------------------------
\* C6: an iteration of the loop leaves SAMPLING exactly when the source is
\* exhausted or the accepted-view count has reached the max-frames threshold;
\* the solver is not invoked while sampling, and has been invoked exactly once
\* when the run has ended.
C6_LoopEndsExactlyThen ==
    [][/\ pc = "sampling" =>
            ((pc' # "sampling") <=>
                (frame' = Len(source.frames) \/ (~NoLimit /\ used_frames' >= max_frames[1])))
       /\ pc' = "sampling" => solver_calls' = <<>>
       /\ pc' \in {"done", "error"} => Len(solver_calls') = 1]_vars

\* ---- C7 ----------------------------------------------------------------------------
\* C7: on an image list of n files with no max-frames limit the detector is
\* called exactly once on each item 0..n-1, in list order, and the loop leaves
\* the list only after its last item (no stride applies).
C7_ListEveryItem ==
    (source.kind = "glob" /\ NoLimit) =>
        /\ detect_calls = [i \in 1..(Sampled + 1) |-> i - 1]
        /\ pc # "sampling" =>
              (frame = Len(source.frames) /\ Len(detect_calls) = Len(source.frames))

C7_Witness ==
    /\ source.kind = "glob" /\ NoLimit
    /\ framestep = 2
    /\ Len(source.frames) = 3
    /\ ~HasBoard(1)
    /\ pc = "done"
    /\ detect_calls = <<0, 1, 2>>

\* ---- C8 ----------------------------------------------------------------------------
\* C8: the two correspondence lists always have the same length, the number of
\* accepted frames; the image-point list holds the corners of the accepted
\* frames in increasing frame order and the object-point list one copy of the
\* pattern points per view; a step either leaves both lists alone or appends
\* exactly one entry to each; and the lists do not change after sampling.
C8_ListsAgree ==
    /\ Len(obj_points) = used_frames
    /\ Len(img_points) = used_frames
    /\ used_frames = Cardinality({i \in 1..Len(detect_calls) : HasBoard(detect_calls[i])})
    /\ \A k \in 1..Len(obj_points) : obj_points[k] = pattern_points
    /\ \A k \in 1..Len(img_points) :
          /\ img_points[k].frame \in Range(detect_calls)
          /\ HasBoard(img_points[k].frame)
    /\ \A j, k \in 1..Len(img_points) :
          j < k => img_points[j].frame < img_points[k].frame

C8_ListsStep ==
    /\ \/ (img_points' = img_points /\ obj_points' = obj_points)
       \/ /\ pc = "sampling"
          /\ Len(img_points') = Len(img_points) + 1
          /\ Len(obj_points') = Len(obj_points) + 1
          /\ SubSeq(img_points', 1, Len(img_points)) = img_points
          /\ SubSeq(obj_points', 1, Len(obj_points)) = obj_points
          /\ Last(img_points').frame = frame'
    /\ pc # "sampling" => (img_points' = img_points /\ obj_points' = obj_points)

C8_AppendOnly == [](C8_ListsAgree) /\ [][C8_ListsStep]_vars

C8_Witness ==
    /\ Len(img_points) = 2
    /\ Len(detect_calls) = 3
    /\ img_points[1].frame = 0
    /\ img_points[2].frame = 2
    /\ Len(solver_calls) = 1
    /\ pc = "done"

\* ---- C9 ----------------------------------------------------------------------------
\* C9: with a debug directory set, the debug images written are exactly one
\* per frame offered to the detector, in order, each named by the frame
\* index zero-padded to four digits.  (Stated for runs without a limit or
\* with a limit of at least 1: the limit 0 is the case of C5.)
C9_DebugImagePerOfferedFrame ==
    (debug_dir /\ max_frames # <<0>>) =>
        /\ Len(debug_files) = Len(detect_calls)
        /\ \A i \in 1..Len(debug_files) :
              /\ Len(debug_files[i]) = 4
              /\ DecimalValue(debug_files[i]) = detect_calls[i]

\* ---- C10 ---------------------------------------------------------------------------
\* C10: (w, h), the size handed to the solver and written to the corners
\* file, is the size of the last frame offered to the detector, accepted or
\* not, and (0, 0) when none was offered.
LastOfferedSize ==
    IF detect_calls = <<>> THEN <<0, 0>> ELSE SizeOf(Last(detect_calls))

C10_SizeIsLastOffered ==
    /\ <<w, h>> = LastOfferedSize
    /\ \A i \in 1..Len(solver_calls) : solver_calls[i].size = LastOfferedSize
    /\ \A i \in 1..Len(corners_file) : corners_file[i].size = LastOfferedSize

\* The size handed over is the size of no accepted view.
C10_Witness ==
    /\ pc = "done"
    /\ Len(corners_file) = 1
    /\ used_frames >= 1
    /\ ~HasBoard(Last(detect_calls))
    /\ \A k \in 1..Len(img_points) :
          SizeOf(img_points[k].frame) # solver_calls[1].size

\* ---- the run loop apart from the limit 0 ---------------------------------------------
\* With no limit or a limit of at least 1, an iteration leaves SAMPLING exactly
\* when the source is exhausted or the count has reached the limit.
LoopEndsForPositiveLimit ==
    [][(pc = "sampling" /\ max_frames # <<0>>) =>
          ((pc' # "sampling") <=>
              (frame' = Len(source.frames)
                 \/ (~NoLimit /\ used_frames' >= max_frames[1])))]_vars

\* Under FairSpec every run leaves the sampling loop and ends.
Terminates == <>Ended
====
